---- MODULE Spec2Model ----
(***************************************************************************)
(* Model of scripts/makefile/arch_guard.py: the hexagonal architecture    *)
(* guard for Go projects.  One run of main() over a project tree: layer    *)
(* detection, module path extraction, go.mod configuration check, source   *)
(* file scan with the layer rule cascade, and the exit code.               *)
(*                                                                         *)
(* Strings are sequences of tokens; "/" is the path separator token.       *)
(***************************************************************************)
EXTENDS Integers, Sequences, FiniteSets, TLC

VARIABLES
    tree,                \* the project tree on disk (read only during a run)
    pc,                  \* position of main()
    layers_present,      \* ArchitectureGuard.layers_present
    module_path,         \* ArchitectureGuard.module_path
    gomod_config_valid,  \* ArchitectureGuard.gomod_config_valid
    violations,          \* ArchitectureGuard.violations
    go_files,            \* validate_all: the collected list go_files
    file_idx,            \* validate_all: files of go_files already validated
    is_valid,            \* main: result of validate_all
    exit_code,           \* value returned by main
    stdout,              \* section headers and warnings printed so far
    report               \* report_violations: the violations in printed order

vars == <<tree, pc, layers_present, module_path, gomod_config_valid,
          violations, go_files, file_idx, is_valid, exit_code, stdout, report>>

----------------------------------------------------------------------------
(* Bounds of the explored trees *)

MaxImports == 2
MaxFiles == 2
MaxRequires == 1

----------------------------------------------------------------------------
(* Constants of the program *)

None == "None"
NoExit == -1
NoFail == -1

Layers == {"domain", "application", "infrastructure", "presentation", "bootstrap"}

\* a table in which infrastructure may depend on application only
LAYER_RULES_NarrowInfrastructure ==
    [l \in Layers |->
        CASE l = "domain" -> {}
          [] l = "application" -> {"domain"}
          [] l = "infrastructure" -> {"application"}
          [] l = "presentation" -> {"application"}
          [] l = "bootstrap" -> {"domain", "application", "infrastructure", "presentation"}]

LAYER_RULES ==
    [l \in Layers |->
        CASE l = "domain" -> {}
          [] l = "application" -> {"domain"}
          [] l = "infrastructure" -> {"application", "domain"}
          [] l = "presentation" -> {"application"}
          [] l = "bootstrap" -> {"domain", "application", "infrastructure", "presentation"}]

FORBIDDEN_DEPENDENCY == "bootstrap"

DefaultModulePath == <<"github.com", "/", "abitofhelp", "/", "hybrid_app_go">>

----------------------------------------------------------------------------
(* The import paths and module paths that occur in the explored trees *)

ExampleModule == <<"example.com", "/", "app">>

LayerImport(l) == ExampleModule \o <<"/", l, "/", "pkg">>

ImportPaths ==
    {<<"testing">>}
    \cup {LayerImport(l) : l \in Layers}
    \cup {ExampleModule \o <<"/", "util">>}
    \cup {DefaultModulePath \o <<"/", "domain">>}

\* the import lines of the files with several import lines
SourcePaths == {<<"testing">>} \cup {LayerImport(l) : l \in Layers}

\* the import lines of the files of a tree with several files
MultiFilePaths ==
    {<<"testing">>, LayerImport("domain"), LayerImport("infrastructure"),
     LayerImport("presentation")}

\* the require tokens of the layer go.mod files
RequirePaths ==
    {LayerImport(l) : l \in Layers} \cup {DefaultModulePath \o <<"/", "domain">>}

SeqsUpTo(S, n) == UNION {[1..k -> S] : k \in 0..n}

----------------------------------------------------------------------------
(* String helpers *)

StartsWith(s, p) == Len(s) >= Len(p) /\ SubSeq(s, 1, Len(p)) = p

RECURSIVE LStripSlash(_)
LStripSlash(s) ==
    IF s # <<>> /\ Head(s) = "/" THEN LStripSlash(Tail(s)) ELSE s

\* s.split('/')[0]: the tokens before the first separator
RECURSIVE FirstPart(_)
FirstPart(s) ==
    IF s = <<>> \/ Head(s) = "/" THEN <<>> ELSE <<Head(s)>> \o FirstPart(Tail(s))

----------------------------------------------------------------------------
(* Files of the tree *)

\* file name: the stem followed by "_test.go" or ".go"
FileName(f) == <<f.stem, IF f.test THEN "_test.go" ELSE ".go">>

\* directory parts of the path relative to the project root
FileDirs(f) == <<f.dir>> \o (IF f.vendor THEN <<"vendor">> ELSE <<>>)

\* path parts relative to the project root; the last part is the file name
FileParts(f) == FileDirs(f) \o <<FileName(f)>>

FilePathStr(f) == FileParts(f)

----------------------------------------------------------------------------
(* ArchitectureGuard *)

GetModulePath(t) ==
    IF t.root_gomod.exists /\ t.root_gomod.readable /\ t.root_gomod.module # <<>>
    THEN t.root_gomod.module
    ELSE DefaultModulePath

DetectLayers(t) ==
    IF ~t.root_exists THEN {} ELSE {l \in Layers : l \in t.dirs}

\* the (line number, import path) pairs read before a read or decode error
ExtractImports(f) ==
    LET n == IF f.fail_at = NoFail THEN Len(f.imports) ELSE f.fail_at
    IN  [i \in 1..n |-> <<i, f.imports[i]>>]

GetLayerFromImport(import_path, mp) ==
    IF ~StartsWith(import_path, mp) THEN None
    ELSE LET relative == LStripSlash(SubSeq(import_path, Len(mp) + 1, Len(import_path)))
             first == FirstPart(relative)
         IN  IF Len(first) = 1 /\ first[1] \in Layers THEN first[1] ELSE None

GetFileLayer(f) ==
    LET parts == FileParts(f)
    IN  IF parts # <<>> /\ parts[1] \in Layers THEN parts[1] ELSE None


\* sorted(...) over layer names
SortedLayers == <<"application", "bootstrap", "domain", "infrastructure", "presentation">>

\* the layers named by the require tokens of the go.mod of a layer
DeclaredLayerDeps(t, layer, mp) ==
    {GetLayerFromImport(t.manifests[layer].requires[i], mp) :
        i \in 1..Len(t.manifests[layer].requires)} \ {None}

ForbiddenDeps(t, layer, mp) == DeclaredLayerDeps(t, layer, mp) \ LAYER_RULES[layer]

\* a go.mod check that counts a missing go.mod as a failure
GomodLayerOk_MissingFails(t, layer, mp) ==
    IF ~t.manifests[layer].exists THEN FALSE
    ELSE IF ~t.manifests[layer].readable THEN FALSE
    ELSE ForbiddenDeps(t, layer, mp) = {}

\* a go.mod check that lets a go.mod it cannot read pass
GomodLayerOk_UnreadableOk(t, layer, mp) ==
    IF ~t.manifests[layer].exists THEN TRUE
    ELSE IF ~t.manifests[layer].readable THEN TRUE
    ELSE ForbiddenDeps(t, layer, mp) = {}

\* what _validate_gomod_config finds for one layer of layers_present
GomodLayerOk(t, layer, mp) ==
    IF ~t.manifests[layer].exists THEN TRUE
    ELSE IF ~t.manifests[layer].readable THEN FALSE
    ELSE ForbiddenDeps(t, layer, mp) = {}

ValidateGomodConfig(t, lp, mp) == \A layer \in lp : GomodLayerOk(t, layer, mp)

\* the line _validate_gomod_config prints for one layer
GomodLayerLine(t, layer, mp) ==
    IF ~t.manifests[layer].exists THEN <<"no go.mod file", layer, {}>>
    ELSE IF ~t.manifests[layer].readable THEN <<"error reading go.mod", layer, {}>>
    ELSE IF ForbiddenDeps(t, layer, mp) # {}
         THEN <<"forbidden dependencies", layer, ForbiddenDeps(t, layer, mp)>>
         ELSE <<"dependencies", layer, DeclaredLayerDeps(t, layer, mp)>>

RECURSIVE GomodLines(_, _, _, _)
GomodLines(t, lp, mp, i) ==
    IF i > Len(SortedLayers) THEN <<>>
    ELSE (IF SortedLayers[i] \in lp
          THEN <<GomodLayerLine(t, SortedLayers[i], mp)>> ELSE <<>>)
         \o GomodLines(t, lp, mp, i + 1)

Violation(f, line, type, details) ==
    [file_path |-> FilePathStr(f), line_number |-> line,
     violation_type |-> type, details |-> details]

EndsWithTestGo(name) == name # <<>> /\ name[Len(name)] = "_test.go"

\* _validate_no_test_imports: the violations it appends for one file
RECURSIVE TestImportScan(_, _, _)
TestImportScan(f, imports, i) ==
    IF i > Len(imports) THEN <<>>
    ELSE (IF imports[i][2] = <<"testing">>
          THEN <<Violation(f, imports[i][1], "TEST_CODE_IN_PRODUCTION",
                           <<"Production code cannot import testing package">> \o imports[i][2])>>
          ELSE <<>>)
         \o TestImportScan(f, imports, i + 1)

\* a test-import check that does not look at the file name
ValidateNoTestImports_AllFiles(f) == TestImportScan(f, ExtractImports(f), 1)

ValidateNoTestImports(f) ==
    IF EndsWithTestGo(FileName(f)) THEN <<>>
    ELSE TestImportScan(f, ExtractImports(f), 1)

\* a cascade without the bootstrap rule
RuleKind_NoBootstrapRule(current_layer, dependency_layer) ==
    IF current_layer = "presentation" /\ dependency_layer = "infrastructure"
    THEN "FORBIDDEN_LATERAL_DEPENDENCY"
    ELSE IF current_layer = "infrastructure" /\ dependency_layer = "presentation"
         THEN "FORBIDDEN_LATERAL_DEPENDENCY"
    ELSE IF current_layer = "presentation" /\ dependency_layer = "domain"
         THEN "PRESENTATION_IMPORTS_DOMAIN"
    ELSE IF dependency_layer \notin LAYER_RULES[current_layer]
         THEN "ILLEGAL_LAYER_DEPENDENCY"
    ELSE None

\* a cascade with the lateral rule in one direction only
RuleKind_OneWayLateral(current_layer, dependency_layer) ==
    IF dependency_layer = FORBIDDEN_DEPENDENCY THEN "FORBIDDEN_BOOTSTRAP_DEPENDENCY"
    ELSE IF current_layer = "presentation" /\ dependency_layer = "infrastructure"
         THEN "FORBIDDEN_LATERAL_DEPENDENCY"
    ELSE IF current_layer = "presentation" /\ dependency_layer = "domain"
         THEN "PRESENTATION_IMPORTS_DOMAIN"
    ELSE IF dependency_layer \notin LAYER_RULES[current_layer]
         THEN "ILLEGAL_LAYER_DEPENDENCY"
    ELSE None

\* a cascade without the presentation/domain rule
RuleKind_NoPresentationDomain(current_layer, dependency_layer) ==
    IF dependency_layer = FORBIDDEN_DEPENDENCY THEN "FORBIDDEN_BOOTSTRAP_DEPENDENCY"
    ELSE IF current_layer = "presentation" /\ dependency_layer = "infrastructure"
         THEN "FORBIDDEN_LATERAL_DEPENDENCY"
    ELSE IF current_layer = "infrastructure" /\ dependency_layer = "presentation"
         THEN "FORBIDDEN_LATERAL_DEPENDENCY"
    ELSE IF dependency_layer \notin LAYER_RULES[current_layer]
         THEN "ILLEGAL_LAYER_DEPENDENCY"
    ELSE None

\* the rule cascade of validate_file: the kind of violation, if any, of an
\* import from current_layer to a different present layer dependency_layer
RuleKind(current_layer, dependency_layer) ==
    IF dependency_layer = FORBIDDEN_DEPENDENCY THEN "FORBIDDEN_BOOTSTRAP_DEPENDENCY"
    ELSE IF current_layer = "presentation" /\ dependency_layer = "infrastructure"
         THEN "FORBIDDEN_LATERAL_DEPENDENCY"
    ELSE IF current_layer = "infrastructure" /\ dependency_layer = "presentation"
         THEN "FORBIDDEN_LATERAL_DEPENDENCY"
    ELSE IF current_layer = "presentation" /\ dependency_layer = "domain"
         THEN "PRESENTATION_IMPORTS_DOMAIN"
    ELSE IF dependency_layer \notin LAYER_RULES[current_layer]
         THEN "ILLEGAL_LAYER_DEPENDENCY"
    ELSE None

RemediationHint == "Use application/error re-exports instead"

\* the details text validate_file gives a violation of each kind
Details(kind, current_layer, dependency_layer, import_path) ==
    CASE kind = "FORBIDDEN_BOOTSTRAP_DEPENDENCY" ->
            <<"Layer", current_layer, "cannot depend on", FORBIDDEN_DEPENDENCY>> \o import_path
      [] kind = "FORBIDDEN_LATERAL_DEPENDENCY" /\ current_layer = "presentation" ->
            <<"Presentation cannot depend on Infrastructure">> \o import_path
      [] kind = "FORBIDDEN_LATERAL_DEPENDENCY" /\ current_layer # "presentation" ->
            <<"Infrastructure cannot depend on Presentation">> \o import_path
      [] kind = "PRESENTATION_IMPORTS_DOMAIN" ->
            <<"Presentation MUST NOT import Domain directly">> \o import_path
            \o <<RemediationHint>>
      [] OTHER ->
            <<"Layer", current_layer, "cannot depend on", dependency_layer>> \o import_path

\* the body of the import loop of validate_file for one import record
CheckImport(f, current_layer, line_num, import_path, lp, mp) ==
    LET dependency_layer == GetLayerFromImport(import_path, mp)
    IN  IF dependency_layer = None \/ dependency_layer \notin lp THEN <<>>
        ELSE IF dependency_layer = current_layer THEN <<>>
        ELSE LET kind == RuleKind(current_layer, dependency_layer)
             IN  IF kind = None THEN <<>>
                 ELSE <<Violation(f, line_num, kind,
                          Details(kind, current_layer, dependency_layer, import_path))>>

\* an import loop that returns at the first violation of the file
RECURSIVE LayerScan_StopAtFirst(_, _, _, _, _, _)
LayerScan_StopAtFirst(f, current_layer, imports, i, lp, mp) ==
    IF i > Len(imports) THEN <<>>
    ELSE LET found == CheckImport(f, current_layer, imports[i][1], imports[i][2], lp, mp)
         IN  IF found # <<>> THEN found
             ELSE LayerScan_StopAtFirst(f, current_layer, imports, i + 1, lp, mp)

RECURSIVE LayerScan(_, _, _, _, _, _)
LayerScan(f, current_layer, imports, i, lp, mp) ==
    IF i > Len(imports) THEN <<>>
    ELSE CheckImport(f, current_layer, imports[i][1], imports[i][2], lp, mp)
         \o LayerScan(f, current_layer, imports, i + 1, lp, mp)

\* validate_file: the violations it appends for one file, in order
ValidateFile(f, lp, mp) ==
    LET current_layer == GetFileLayer(f)
    IN  ValidateNoTestImports(f)
        \o (IF current_layer = None \/ current_layer \notin lp THEN <<>>
            ELSE LayerScan(f, current_layer, ExtractImports(f), 1, lp, mp))

\* the warnings _extract_imports prints while validate_file handles one file
ValidateFileWarnings(f, lp) ==
    LET w == <<"Warning: Could not read", FilePathStr(f), {}>>
        current_layer == GetFileLayer(f)
    IN  IF f.fail_at = NoFail THEN <<>>
        ELSE (IF EndsWithTestGo(FileName(f)) THEN <<>> ELSE <<w>>)
             \o (IF current_layer = None \/ current_layer \notin lp THEN <<>> ELSE <<w>>)

\* the *.go files validate_all collects: under a present layer, not vendored
CollectedFiles(t, lp) ==
    {f \in t.files : f.dir \in lp /\ \A i \in 1..Len(FileDirs(f)) : FileDirs(f)[i] # "vendor"}

\* the orders in which validate_all can build go_files: layer after layer in
\* the iteration order of a set, each layer's files in the order of rglob
ScanOrders(t, lp) ==
    LET S == CollectedFiles(t, lp)
        n == Cardinality(S)
    IN  {s \in [1..n -> S] :
            /\ \A i, j \in 1..n : i # j => s[i] # s[j]
            /\ \A i, j, k \in 1..n :
                  (i < j /\ j < k /\ s[i].dir = s[k].dir) => s[j].dir = s[i].dir}

----------------------------------------------------------------------------
(* The explored project trees *)

NoManifest == [exists |-> FALSE, readable |-> FALSE, requires |-> <<>>]
UnreadableManifest == [exists |-> TRUE, readable |-> FALSE, requires |-> <<>>]
ReadableManifest(reqs) == [exists |-> TRUE, readable |-> TRUE, requires |-> reqs]

ManifestContents ==
    {UnreadableManifest} \cup {ReadableManifest(r) : r \in SeqsUpTo(RequirePaths, MaxRequires)}

NoManifests == [l \in Layers |-> NoManifest]

GomodAbsent == [exists |-> FALSE, readable |-> FALSE, module |-> <<>>]
GomodUnreadable == [exists |-> TRUE, readable |-> FALSE, module |-> ExampleModule]
GomodNoModuleLine == [exists |-> TRUE, readable |-> TRUE, module |-> <<>>]
GomodExample == [exists |-> TRUE, readable |-> TRUE, module |-> ExampleModule]

RootGomods == {GomodAbsent, GomodUnreadable, GomodNoModuleLine, GomodExample}

SourceFile(dir, vendor, test, stem, imports, fail_at) ==
    [dir |-> dir, vendor |-> vendor, test |-> test, stem |-> stem,
     imports |-> imports, fail_at |-> fail_at]

\* a plain production file that can be read
PlainFile(dir, stem, imports) == SourceFile(dir, FALSE, FALSE, stem, imports, NoFail)

Tree(root_gomod, dirs, manifests, files) ==
    [root_exists |-> TRUE, root_gomod |-> root_gomod, dirs |-> dirs,
     manifests |-> manifests, files |-> files]

MissingRootTree ==
    [root_exists |-> FALSE, root_gomod |-> GomodAbsent, dirs |-> {},
     manifests |-> NoManifests, files |-> {}]

Stems == <<"f1", "f2", "f3", "f4">>

FileKinds == {<<FALSE, FALSE>>, <<FALSE, TRUE>>, <<TRUE, FALSE>>}

\* the project root does not exist
InitMissingRoot == tree = MissingRootTree

\* at most one readable source file of any kind (plain, test, vendored) with
\* up to MaxImports import lines, under any set of layer directories
InitSingleFile ==
    \E dirs \in SUBSET Layers :
        \/ tree = Tree(GomodExample, dirs, NoManifests, {})
        \/ \E d \in dirs, k \in FileKinds, imps \in SeqsUpTo(SourcePaths, MaxImports) :
              tree = Tree(GomodExample, dirs, NoManifests,
                          {SourceFile(d, k[1], k[2], Stems[1], imps, NoFail)})

\* one source file whose read fails after fail_at of its import lines
InitUnreadableFile ==
    \E d \in Layers, k \in FileKinds, imps \in SeqsUpTo(SourcePaths, MaxImports) :
        \E fa \in 0..(Len(imps) - 1) :
            tree = Tree(GomodExample, Layers, NoManifests,
                        {SourceFile(d, k[1], k[2], Stems[1], imps, fa)})

\* two to MaxFiles plain files with one import line each, all layers present
InitMultiFile ==
    \E n \in 2..MaxFiles :
        \E c \in [1..n -> Layers \X MultiFilePaths] :
            tree = Tree(GomodExample, Layers, NoManifests,
                        {PlainFile(c[i][1], Stems[i], <<c[i][2]>>) : i \in 1..n})

\* at most one layer go.mod, under any set of layer directories and any root go.mod
InitManifest ==
    \E dirs \in SUBSET Layers, g \in RootGomods :
        \/ tree = Tree(g, dirs, NoManifests, {})
        \/ \E lm \in dirs, m \in ManifestContents :
              tree = Tree(g, dirs, [l \in Layers |-> IF l = lm THEN m ELSE NoManifest], {})

\* the go.mod files of two layers, all layers present
InitTwoManifests ==
    \E l1, l2 \in Layers, m1, m2 \in ManifestContents :
        /\ l1 # l2
        /\ tree = Tree(GomodExample, Layers,
                       [l \in Layers |-> IF l = l1 THEN m1 ELSE IF l = l2 THEN m2 ELSE NoManifest],
                       {})

\* a layer with a go.mod and one plain file with one import line
InitMixed ==
    \E dirs \in SUBSET Layers :
        \E d \in dirs, m \in ManifestContents, imp \in ImportPaths :
            tree = Tree(GomodExample, dirs,
                        [l \in Layers |-> IF l = d THEN m ELSE NoManifest],
                        {PlainFile(d, Stems[1], <<imp>>)})

\* any root go.mod, with one plain file with one import line
InitRoot ==
    \E dirs \in SUBSET Layers, g \in RootGomods :
        \E d \in dirs, imp \in ImportPaths :
            tree = Tree(g, dirs, NoManifests, {PlainFile(d, Stems[1], <<imp>>)})

\* a directory outside every layer, as shared tooling has
ToolsDir == "tools"

\* one file outside every layer directory, plain or test, with up to
\* MaxImports import lines, next to any set of layer directories
InitUnaffiliated ==
    \E dirs \in SUBSET Layers, test \in BOOLEAN :
        \E imps \in SeqsUpTo({<<"testing">>, LayerImport("domain")}, MaxImports) :
            tree = Tree(GomodExample, dirs \cup {ToolsDir}, NoManifests,
                        {SourceFile(ToolsDir, FALSE, test, Stems[1], imps, NoFail)})

InitTree ==
    \/ InitMissingRoot
    \/ InitSingleFile
    \/ InitUnreadableFile
    \/ InitMultiFile
    \/ InitManifest
    \/ InitTwoManifests
    \/ InitMixed
    \/ InitRoot
    \/ InitUnaffiliated

----------------------------------------------------------------------------
(* One run of main() *)

Say(lines) == stdout' = stdout \o lines

Init ==
    /\ InitTree
    /\ pc = "main"
    /\ layers_present = {}
    /\ module_path = <<>>
    /\ gomod_config_valid = FALSE
    /\ violations = <<>>
    /\ go_files = <<>>
    /\ file_idx = 0
    /\ is_valid = FALSE
    /\ exit_code = NoExit
    /\ stdout = <<>>
    /\ report = <<>>

\* main, lines 355-357: the project root does not exist
MainRootMissing ==
    /\ pc = "main"
    /\ ~tree.root_exists
    /\ Say(<<<<"ERROR: Project directory not found", "", {}>>>>)
    /\ exit_code' = 2
    /\ pc' = "exit"
    /\ UNCHANGED <<report, tree, layers_present, module_path, gomod_config_valid,
                   violations, go_files, file_idx, is_valid>>

\* what _get_module_path prints
ModulePathWarning(t) ==
    IF t.root_gomod.exists /\ ~t.root_gomod.readable
    THEN <<<<"Warning: Could not read root go.mod", "", {}>>>> ELSE <<>>

\* main, lines 359-363: the guard is constructed and no layer is present
MainNoLayers ==
    /\ pc = "main"
    /\ tree.root_exists
    /\ DetectLayers(tree) = {}
    /\ violations' = <<>>
    /\ layers_present' = DetectLayers(tree)
    /\ gomod_config_valid' = FALSE
    /\ module_path' = GetModulePath(tree)
    /\ Say(ModulePathWarning(tree)
           \o <<<<"No architecture layers to validate - exiting", "", {}>>>>)
    /\ exit_code' = 2
    /\ pc' = "exit"
    /\ UNCHANGED <<report, tree, go_files, file_idx, is_valid>>

\* main, lines 359-365: the guard is constructed and validate_all is called
MainConstruct ==
    /\ pc = "main"
    /\ tree.root_exists
    /\ DetectLayers(tree) # {}
    /\ violations' = <<>>
    /\ layers_present' = DetectLayers(tree)
    /\ gomod_config_valid' = FALSE
    /\ module_path' = GetModulePath(tree)
    /\ Say(ModulePathWarning(tree))
    /\ pc' = "validate_all"
    /\ UNCHANGED <<report, tree, go_files, file_idx, is_valid, exit_code>>

\* validate_all, lines 274-285: step 1, the go.mod configuration
ValidateAllGomod ==
    /\ pc = "validate_all"
    /\ IF layers_present = {}
       THEN /\ Say(<<<<"No architecture layers detected - skipping validation", "", {}>>>>)
            /\ is_valid' = TRUE
            /\ pc' = "report"
            /\ UNCHANGED gomod_config_valid
       ELSE /\ Say(<<<<"Step 1: Validate go.mod Configuration", "", {}>>>>
                   \o GomodLines(tree, layers_present, module_path, 1))
            /\ gomod_config_valid' = ValidateGomodConfig(tree, layers_present, module_path)
            /\ pc' = "collect"
            /\ UNCHANGED is_valid
    /\ UNCHANGED <<report, tree, layers_present, module_path, violations, go_files,
                   file_idx, exit_code>>

\* validate_all, lines 287-300: step 2, the *.go files are collected
ValidateAllCollect ==
    /\ pc = "collect"
    /\ \E order \in ScanOrders(tree, layers_present) : go_files' = order
    /\ file_idx' = 0
    /\ Say(<<<<"Step 2: Validate Go Source File Dependencies", "", {}>>>>)
    /\ pc' = "scan"
    /\ UNCHANGED <<report, tree, layers_present, module_path, gomod_config_valid,
                   violations, is_valid, exit_code>>

\* validate_all, lines 302-303: validate_file on the next collected file
ValidateAllFile ==
    /\ pc = "scan"
    /\ file_idx < Len(go_files)
    /\ violations' = violations
                     \o ValidateFile(go_files[file_idx + 1], layers_present, module_path)
    /\ Say(ValidateFileWarnings(go_files[file_idx + 1], layers_present))
    /\ file_idx' = file_idx + 1
    /\ UNCHANGED <<report, tree, pc, layers_present, module_path, gomod_config_valid,
                   go_files, is_valid, exit_code>>

\* a validate_all that forgets the go.mod configuration
ValidateAllResult_ViolationsOnly(config_valid, vs) == Len(vs) = 0

\* validate_all, line 305
ValidateAllResult(config_valid, vs) == config_valid /\ Len(vs) = 0

\* main, line 368
ExitCodeOf(valid) == IF valid THEN 0 ELSE 1

\* validate_all, line 305: the result
ValidateAllReturn ==
    /\ pc = "scan"
    /\ file_idx = Len(go_files)
    /\ is_valid' = ValidateAllResult(gomod_config_valid, violations)
    /\ pc' = "report"
    /\ UNCHANGED <<report, tree, layers_present, module_path, gomod_config_valid,
                   violations, go_files, file_idx, exit_code, stdout>>

\* sorted(by_type.items()): the violation types in string order
SortedKinds ==
    <<"FORBIDDEN_BOOTSTRAP_DEPENDENCY", "FORBIDDEN_LATERAL_DEPENDENCY",
      "ILLEGAL_LAYER_DEPENDENCY", "PRESENTATION_IMPORTS_DOMAIN",
      "TEST_CODE_IN_PRODUCTION">>

\* by_type[kind]: the violations of one type, in the order they were appended
RECURSIVE OfKind(_, _)
OfKind(vs, kind) ==
    IF vs = <<>> THEN <<>>
    ELSE (IF Head(vs).violation_type = kind THEN <<Head(vs)>> ELSE <<>>)
         \o OfKind(Tail(vs), kind)

RECURSIVE GroupedByKind(_, _)
GroupedByKind(vs, k) ==
    IF k > Len(SortedKinds) THEN <<>>
    ELSE OfKind(vs, SortedKinds[k]) \o GroupedByKind(vs, k + 1)

\* report_violations: the entries printed, in printed order
ReportViolations(config_valid, vs) ==
    IF config_valid /\ vs = <<>> THEN <<>> ELSE GroupedByKind(vs, 1)

\* main, lines 366-368: the report is printed and the exit code returned
MainReport ==
    /\ pc = "report"
    /\ Say(<<<<"FINAL RESULTS", "", {}>>>>)
    /\ report' = ReportViolations(gomod_config_valid, violations)
    /\ exit_code' = ExitCodeOf(is_valid)
    /\ pc' = "exit"
    /\ UNCHANGED <<tree, layers_present, module_path, gomod_config_valid,
                   violations, go_files, file_idx, is_valid>>

Next ==
    \/ MainRootMissing
    \/ MainNoLayers
    \/ MainConstruct
    \/ ValidateAllGomod
    \/ ValidateAllCollect
    \/ ValidateAllFile
    \/ ValidateAllReturn
    \/ MainReport

Spec == Init /\ [][Next]_vars

TypeOK ==
    /\ pc \in {"main", "validate_all", "collect", "scan", "report", "exit"}
    /\ layers_present \subseteq Layers
    /\ exit_code \in {NoExit, 0, 1, 2}
    /\ file_idx \in 0..Len(go_files)

----------------------------------------------------------------------------
(* Vocabulary of the properties *)

LayerKinds ==
    {"FORBIDDEN_BOOTSTRAP_DEPENDENCY", "FORBIDDEN_LATERAL_DEPENDENCY",
     "PRESENTATION_IMPORTS_DOMAIN", "ILLEGAL_LAYER_DEPENDENCY"}

\* the layer directories of the tree
PresentDirs == IF tree.root_exists THEN tree.dirs \cap Layers ELSE {}

\* the files validate_file has handled so far
Validated == {go_files[k] : k \in 1..file_idx}

\* the import records the extractor yields for a file
RecordsOf(f) == {ExtractImports(f)[i] : i \in 1..Len(ExtractImports(f))}

\* the recorded violations of the given kinds at a line of a file
ViolationsAt(f, line, kinds) ==
    {i \in 1..Len(violations) :
        /\ violations[i].file_path = FilePathStr(f)
        /\ violations[i].line_number = line
        /\ violations[i].violation_type \in kinds}

Printed(text) == \E i \in 1..Len(stdout) : stdout[i][1] = text

ManifestCheckRun == Printed("Step 1: Validate go.mod Configuration")

SourceCheckRun == Printed("Step 2: Validate Go Source File Dependencies")

----------------------------------------------------------------------------
(* C1: when at least one layer directory is present, main returns 0 if the *)
(* go.mod configuration was found valid and no violation was recorded, and *)
(* 1 in every other case.                                                  *)
C1_ExitCode ==
    (pc = "exit" /\ PresentDirs # {}) =>
        /\ exit_code \in {0, 1}
        /\ exit_code = 0 <=> (gomod_config_valid /\ violations = <<>>)

C1_Witness ==
    /\ pc = "exit"
    /\ PresentDirs # {}
    /\ exit_code = 1
    /\ gomod_config_valid
    /\ Len(violations) = 1

(* C2: a project root without any layer directory gives exit code 0, no    *)
(* violation and no go.mod check.                                          *)
C2_NoLayersExitZero ==
    (pc = "exit" /\ tree.root_exists /\ PresentDirs = {}) =>
        /\ exit_code = 0
        /\ violations = <<>>
        /\ ~ManifestCheckRun

(* C3: a missing project root or an unreadable root go.mod stops the run   *)
(* before any validation, with exit code 2.                                *)
C3_ConfigErrorFatal ==
    (~tree.root_exists \/ (tree.root_gomod.exists /\ ~tree.root_gomod.readable)) =>
        /\ pc \in {"main", "exit"}
        /\ ~ManifestCheckRun
        /\ ~SourceCheckRun
        /\ pc = "exit" => exit_code = 2

\* the pairs <<f, r>> of a validated file and one of its import records
AllRecords == UNION {{<<f, r>> : r \in RecordsOf(f)} : f \in Validated}

\* the layer of the file of a pair of AllRecords
FromLayer(x) == GetFileLayer(x[1])

\* the layer the import path of a pair of AllRecords classifies to, under the
\* module path of the run
ToLayer(x) == GetLayerFromImport(x[2][2], module_path)

\* a pair of AllRecords is an import from layer `from` to layer `to`
ImportFromTo(x, from, to) == FromLayer(x) = from /\ ToLayer(x) = to

\* exactly one layer violation is recorded for record r of f, of the given kind
ExactlyOneOfKind(f, r, kind) ==
    /\ Cardinality(ViolationsAt(f, r[1], LayerKinds)) = 1
    /\ Cardinality(ViolationsAt(f, r[1], {kind})) = 1

(* C4 as stated: every import record of a file of a layer other than       *)
(* bootstrap whose target classifies to bootstrap has exactly one layer    *)
(* violation, of kind FORBIDDEN_BOOTSTRAP_DEPENDENCY.                      *)
C4_Original ==
    \A x \in AllRecords :
        (FromLayer(x) \in Layers \ {"bootstrap"} /\ ToLayer(x) = "bootstrap") =>
            ExactlyOneOfKind(x[1], x[2], "FORBIDDEN_BOOTSTRAP_DEPENDENCY")

(* C4 as amended: the same, in a tree where the bootstrap directory is     *)
(* present.                                                                *)
C4_BootstrapRule ==
    "bootstrap" \in PresentDirs =>
        \A x \in AllRecords :
            (FromLayer(x) \in Layers \ {"bootstrap"} /\ ToLayer(x) = "bootstrap") =>
                ExactlyOneOfKind(x[1], x[2], "FORBIDDEN_BOOTSTRAP_DEPENDENCY")

C4_Witness ==
    /\ "bootstrap" \in PresentDirs
    /\ \E x \in AllRecords :
          /\ ImportFromTo(x, "presentation", "bootstrap")
          /\ x[2][1] = 2

(* C5 as stated: every import from a presentation file to infrastructure   *)
(* and from an infrastructure file to presentation has exactly one layer   *)
(* violation, of kind FORBIDDEN_LATERAL_DEPENDENCY, and none of kind       *)
(* ILLEGAL_LAYER_DEPENDENCY.                                               *)
C5_Original ==
    \A x \in AllRecords :
        (\/ ImportFromTo(x, "presentation", "infrastructure")
         \/ ImportFromTo(x, "infrastructure", "presentation")) =>
            /\ ExactlyOneOfKind(x[1], x[2], "FORBIDDEN_LATERAL_DEPENDENCY")
            /\ ViolationsAt(x[1], x[2][1], {"ILLEGAL_LAYER_DEPENDENCY"}) = {}

(* C5 as amended: the same, in a tree where both the presentation and the  *)
(* infrastructure directory are present.                                   *)
C5_LateralSymmetry ==
    {"presentation", "infrastructure"} \subseteq PresentDirs =>
        \A x \in AllRecords :
            (\/ ImportFromTo(x, "presentation", "infrastructure")
             \/ ImportFromTo(x, "infrastructure", "presentation")) =>
                /\ ExactlyOneOfKind(x[1], x[2], "FORBIDDEN_LATERAL_DEPENDENCY")
                /\ ViolationsAt(x[1], x[2][1], {"ILLEGAL_LAYER_DEPENDENCY"}) = {}

C5_Witness ==
    /\ {"presentation", "infrastructure"} \subseteq PresentDirs
    /\ \E x, y \in AllRecords :
          /\ ImportFromTo(x, "presentation", "infrastructure")
          /\ ImportFromTo(y, "infrastructure", "presentation")

\* the one violation of the given kind at record r of f carries the hint
CarriesHint(f, r, kind) ==
    \A i \in ViolationsAt(f, r[1], {kind}) :
        violations[i].details[Len(violations[i].details)] = RemediationHint

(* C6 as stated: every import from a presentation file to domain has       *)
(* exactly one layer violation, of kind PRESENTATION_IMPORTS_DOMAIN with   *)
(* the remediation hint, and none of kind ILLEGAL_LAYER_DEPENDENCY.        *)
C6_Original ==
    \A x \in AllRecords :
        ImportFromTo(x, "presentation", "domain") =>
            /\ ExactlyOneOfKind(x[1], x[2], "PRESENTATION_IMPORTS_DOMAIN")
            /\ CarriesHint(x[1], x[2], "PRESENTATION_IMPORTS_DOMAIN")
            /\ ViolationsAt(x[1], x[2][1], {"ILLEGAL_LAYER_DEPENDENCY"}) = {}

(* C6 as amended: the same, in a tree where the domain directory is        *)
(* present.                                                                *)
C6_RulePriority ==
    "domain" \in PresentDirs =>
        \A x \in AllRecords :
            ImportFromTo(x, "presentation", "domain") =>
                /\ ExactlyOneOfKind(x[1], x[2], "PRESENTATION_IMPORTS_DOMAIN")
                /\ CarriesHint(x[1], x[2], "PRESENTATION_IMPORTS_DOMAIN")
                /\ ViolationsAt(x[1], x[2][1], {"ILLEGAL_LAYER_DEPENDENCY"}) = {}

C6_Witness ==
    /\ "domain" \in PresentDirs
    /\ "domain" \notin LAYER_RULES["presentation"]
    /\ \E x \in AllRecords : ImportFromTo(x, "presentation", "domain")

\* the table of allowed dependencies as the specification states it
AllowedDependencies(l) ==
    CASE l = "domain" -> {}
      [] l = "application" -> {"domain"}
      [] l = "infrastructure" -> {"application", "domain"}
      [] l = "presentation" -> {"application"}
      [] l = "bootstrap" -> Layers \ {"bootstrap"}

\* rules 1 to 3 of the cascade, as the specification states them
MatchesRule123(current, dependency) ==
    \/ dependency = "bootstrap"
    \/ current = "presentation" /\ dependency = "infrastructure"
    \/ current = "infrastructure" /\ dependency = "presentation"
    \/ current = "presentation" /\ dependency = "domain"

AllKinds == LayerKinds \cup {"TEST_CODE_IN_PRODUCTION"}

(* C7: an import between two distinct present layers that matches none of  *)
(* rules 1 to 3 has exactly one violation, of kind ILLEGAL_LAYER_DEPENDENCY,*)
(* when the dependency is not in the table entry of the current layer, and *)
(* no violation at all when it is.                                         *)
C7_GenericRule ==
    \A x \in AllRecords :
        (/\ FromLayer(x) \in PresentDirs
         /\ ToLayer(x) \in PresentDirs
         /\ FromLayer(x) # ToLayer(x)
         /\ ~MatchesRule123(FromLayer(x), ToLayer(x))) =>
            IF ToLayer(x) \in AllowedDependencies(FromLayer(x))
            THEN ViolationsAt(x[1], x[2][1], AllKinds) = {}
            ELSE /\ Cardinality(ViolationsAt(x[1], x[2][1], AllKinds)) = 1
                 /\ Cardinality(ViolationsAt(x[1], x[2][1], {"ILLEGAL_LAYER_DEPENDENCY"})) = 1

C7_Witness ==
    /\ {"domain", "infrastructure", "presentation"} \subseteq PresentDirs
    /\ \E x, y \in AllRecords :
          /\ ImportFromTo(x, "infrastructure", "domain")
          /\ ViolationsAt(x[1], x[2][1], AllKinds) = {}
          /\ ImportFromTo(y, "domain", "presentation")
          /\ ViolationsAt(y[1], y[2][1], {"ILLEGAL_LAYER_DEPENDENCY"}) # {}

(* C8: a layer whose directory is absent is never the source or the target *)
(* of a recorded violation, is never printed among the forbidden           *)
(* dependencies of a go.mod, and never makes the go.mod configuration      *)
(* invalid.                                                                *)
C8_AbsenceSilence ==
    \A l \in Layers \ PresentDirs :
        /\ \A i \in 1..Len(violations) :
              /\ violations[i].file_path[1] # l
              /\ \A j \in 1..Len(violations[i].details) : violations[i].details[j] # l
        /\ \A i \in 1..Len(stdout) :
              stdout[i][1] = "forbidden dependencies" => l \notin stdout[i][3]
        /\ (/\ pc \in {"collect", "scan", "report", "exit"}
            /\ ManifestCheckRun
            /\ \A p \in PresentDirs :
                  tree.manifests[p].exists =>
                      /\ tree.manifests[p].readable
                      /\ (DeclaredLayerDeps(tree, p, module_path) \ {l}) \subseteq LAYER_RULES[p])
           => gomod_config_valid

\* file f carries the test-file naming convention
IsTestFile(f) == f.test

(* C9: no layer violation is ever recorded for a file whose name ends in   *)
(* _test.go.                                                               *)
C9_TestFilesExcluded ==
    \A f \in Validated : IsTestFile(f) =>
        \A r \in RecordsOf(f) : ViolationsAt(f, r[1], LayerKinds) = {}

(* C10: every import record of the testing package in a validated file has *)
(* exactly one TEST_CODE_IN_PRODUCTION violation at its line when the file *)
(* is not a test file, and none when it is.                                *)
C10_TestImportHygiene ==
    \A x \in AllRecords :
        x[2][2] = <<"testing">> =>
            Cardinality(ViolationsAt(x[1], x[2][1], {"TEST_CODE_IN_PRODUCTION"}))
                = IF IsTestFile(x[1]) THEN 0 ELSE 1

C10_Witness ==
    \E x \in AllRecords :
        /\ x[2][2] = <<"testing">>
        /\ x[2][1] = 2
        /\ ~IsTestFile(x[1])
        /\ x[1].imports[1] = <<"testing">>

\* the testing package
TestingPackage == <<"testing">>

(* C11: after validate_all over a tree with a present layer, every import   *)
(* of the testing package in a non-test file outside every layer directory *)
(* has a TEST_CODE_IN_PRODUCTION violation.                                *)
C11_UnaffiliatedScanned ==
    (pc \in {"report", "exit"} /\ PresentDirs # {}) =>
        \A f \in tree.files :
            (GetFileLayer(f) = None /\ ~IsTestFile(f)) =>
                \A r \in RecordsOf(f) :
                    r[2] = TestingPackage =>
                        ViolationsAt(f, r[1], {"TEST_CODE_IN_PRODUCTION"}) # {}

\* the go.mod check of validate_all has returned
ManifestCheckDone ==
    pc \in {"collect", "scan", "report", "exit"} /\ ManifestCheckRun

\* the go.mod of a present layer, if there is one, can be read and declares
\* nothing outside the allowed dependencies of the layer
ManifestAcceptable(l) ==
    tree.manifests[l].exists =>
        /\ tree.manifests[l].readable
        /\ DeclaredLayerDeps(tree, l, module_path) \subseteq LAYER_RULES[l]

\* the lines the go.mod check printed about a layer
ManifestLinesOf(l) ==
    {stdout[i][1] : i \in {j \in 1..Len(stdout) :
        /\ stdout[j][2] = l
        /\ stdout[j][1] \in {"no go.mod file", "error reading go.mod",
                             "forbidden dependencies", "dependencies"}}}

(* C12: a present layer without a go.mod gets the "no go.mod file" warning *)
(* and nothing else, leaves the validity of the configuration to the other *)
(* present layers, adds no violation, and does not keep the check from     *)
(* reaching the remaining layers.                                          *)
C12_MissingManifestTolerated ==
    ManifestCheckDone =>
        \A l \in PresentDirs :
            ~tree.manifests[l].exists =>
                /\ ManifestLinesOf(l) = {"no go.mod file"}
                /\ gomod_config_valid <=>
                       \A p \in PresentDirs \ {l} : ManifestAcceptable(p)
                /\ pc = "collect" => violations = <<>>
                /\ \A p \in PresentDirs : ManifestLinesOf(p) # {}

C12_Witness ==
    /\ pc = "collect"
    /\ gomod_config_valid
    /\ \E l, p \in PresentDirs :
          /\ ~tree.manifests[l].exists
          /\ tree.manifests[p].exists
          /\ DeclaredLayerDeps(tree, p, module_path) # {}

(* C13: a source file whose read or decode fails, at whatever position,    *)
(* yields no import record and no violation, and every collected file is   *)
(* still validated before validate_all returns.                            *)
C13_UnreadableContributesNothing ==
    /\ \A f \in Validated :
          f.fail_at # NoFail =>
              /\ RecordsOf(f) = {}
              /\ \A i \in 1..Len(violations) :
                    violations[i].file_path # FilePathStr(f)
    /\ pc \in {"report", "exit"} =>
          Validated = CollectedFiles(tree, layers_present)

\* position of x in a sequence without repetitions
RankIn(seq, x) == CHOOSE i \in 1..Len(seq) : seq[i] = x

\* string order of two file paths under the project root: by layer
\* directory, then by stem, then ".go" before "_test.go"
PathNotAfter(p, q) ==
    LET pn == p[Len(p)]
        qn == q[Len(q)]
        StemRank(n) == CHOOSE i \in 1..Len(Stems) : Stems[i] = n[1]
    IN  \/ RankIn(SortedLayers, p[1]) < RankIn(SortedLayers, q[1])
        \/ /\ p[1] = q[1]
           /\ \/ StemRank(pn) < StemRank(qn)
              \/ pn[1] = qn[1] /\ (pn[2] = ".go" \/ qn[2] = "_test.go")

(* C14: the report printed for a tree does not depend on the scan order:   *)
(* it holds the recorded violations, grouped by kind in kind order and,    *)
(* within a kind, in file path order.                                      *)
C14_DeterministicReport ==
    pc = "exit" =>
        /\ {report[i] : i \in 1..Len(report)} =
               {violations[i] : i \in 1..Len(violations)}
        /\ \A i, j \in 1..Len(report) :
              i < j =>
                  LET ki == RankIn(SortedKinds, report[i].violation_type)
                      kj == RankIn(SortedKinds, report[j].violation_type)
                  IN  /\ ki <= kj
                      /\ ki = kj =>
                            PathNotAfter(report[i].file_path, report[j].file_path)

IsPrefix(s, t) == Len(s) <= Len(t) /\ SubSeq(t, 1, Len(s)) = s

\* the record r of the scanned file f matches a rule: the test-import rule
\* of a non-test file, or a layer rule between two distinct present layers
MatchesSomeRule(f, r) ==
    LET current == GetFileLayer(f)
        dependency == GetLayerFromImport(r[2], module_path)
    IN  \/ ~IsTestFile(f) /\ r[2] = TestingPackage
        \/ /\ dependency \in PresentDirs
           /\ dependency # current
           /\ \/ MatchesRule123(current, dependency)
              \/ dependency \notin AllowedDependencies(current)

\* every collected file was validated, and the list holds one entry for
\* each matching record of each scanned file and no other entry
FullyCollected ==
    /\ Validated = CollectedFiles(tree, layers_present)
    /\ \A x \in AllRecords :
          Cardinality(ViolationsAt(x[1], x[2][1], AllKinds)) =
              (IF MatchesSomeRule(x[1], x[2]) THEN 1 ELSE 0)
    /\ Len(violations) =
          Cardinality({x \in AllRecords : MatchesSomeRule(x[1], x[2])})

(* C15: no step changes or removes an entry of the violation list, and     *)
(* when validate_all returns the list holds exactly one entry for every    *)
(* import record of every scanned file that matches a rule, repeated       *)
(* imports included.                                                       *)
C15_FullCollection ==
    [][/\ IsPrefix(violations, violations')
       /\ (pc = "scan" /\ pc' = "report") => FullyCollected']_vars

C15_Witness ==
    /\ pc = "report"
    /\ \E f \in Validated :
          /\ Len(ExtractImports(f)) = 2
          /\ f.imports[1] = f.imports[2]
          /\ Cardinality(ViolationsAt(f, 1, LayerKinds)) = 1
          /\ Cardinality(ViolationsAt(f, 2, LayerKinds)) = 1
          /\ Len(violations) = 2

\* declared - allowedDependencies(layer) for the go.mod of a layer; a go.mod
\* that is missing or cannot be read declares nothing
ForbiddenDeclared(l) ==
    DeclaredLayerDeps(tree, l, module_path) \ AllowedDependencies(l)

====
